---- MODULE Spec2Model ----
(***************************************************************************)
(* Model of the macro-indicators client (src/src/macro_indicators/api.py). *)
(*                                                                         *)
(* Python strings are sequences of one-character strings, so that the      *)
(* substring test (`in`), str.startswith, str.strip, f-string formatting   *)
(* and JSON decoding are computed character by character.                  *)
(***************************************************************************)
EXTENDS Integers, Sequences, FiniteSets, TLC

VARIABLES pc, call, request, nrequests, response, getOutcome, opOutcome

vars == <<pc, call, request, nrequests, response, getOutcome, opOutcome>>

(***************************************************************************)
(* Bounds of the model.                                                    *)
(***************************************************************************)
\* longest run of whitespace put in front of a response body
MaxPad == 1
\* largest number of segments a content-type header value is built from
MaxCtypeSegs == 2

(***************************************************************************)
(* Python text primitives.                                                 *)
(***************************************************************************)
Quote == "\""

\* Python `needle in s` on strings
Contains(needle, s) ==
  \E i \in 0..(Len(s) - Len(needle)) : SubSeq(s, i + 1, i + Len(needle)) = needle

\* Python s.startswith(prefix)
StartsWith(s, prefix) ==
  Len(s) >= Len(prefix) /\ SubSeq(s, 1, Len(prefix)) = prefix

\* the whitespace characters of the modelled alphabet (str.strip and JSON agree on them)
Whitespace == {" ", "\n", "\t", "\r"}

RECURSIVE LStrip(_)
LStrip(s) ==
  IF s # <<>> /\ Head(s) \in Whitespace THEN LStrip(Tail(s)) ELSE s

RECURSIVE RStrip(_)
RStrip(s) ==
  IF s # <<>> /\ s[Len(s)] \in Whitespace THEN RStrip(SubSeq(s, 1, Len(s) - 1)) ELSE s

\* Python s.strip()
Strip(s) == RStrip(LStrip(s))

DigitChars == <<"0", "1", "2", "3", "4", "5", "6", "7", "8", "9">>

DigitSet == {DigitChars[i] : i \in 1..10}

DigitVal(c) == (CHOOSE i \in 1..10 : DigitChars[i] = c) - 1

\* str(n) / f"{n}" for an int
RECURSIVE IntToStr(_)
IntToStr(n) ==
  IF n < 0 THEN <<"-">> \o IntToStr(0 - n)
  ELSE IF n < 10 THEN <<DigitChars[n + 1]>>
  ELSE IntToStr(n \div 10) \o <<DigitChars[(n % 10) + 1]>>

\* int(ds) for a run of decimal digits
RECURSIVE ToInt(_)
ToInt(ds) ==
  IF ds = <<>> THEN 0
  ELSE ToInt(SubSeq(ds, 1, Len(ds) - 1)) * 10 + DigitVal(ds[Len(ds)])

(***************************************************************************)
(* Python values: the decoded JSON structures and the dicts the client    *)
(* builds.  Every value is a record of the same shape, tagged by t.        *)
(***************************************************************************)
PyVal(t, s, n, items) == [t |-> t, s |-> s, n |-> n, items |-> items]

PyStrVal(s) == PyVal("str", s, 0, <<>>)
PyInt(n) == PyVal("int", <<>>, n, <<>>)
PyTrue == PyVal("True", <<>>, 0, <<>>)
PyFalse == PyVal("False", <<>>, 0, <<>>)
PyNone == PyVal("None", <<>>, 0, <<>>)
PyList(items) == PyVal("list", <<>>, 0, items)
PyDict(items) == PyVal("dict", <<>>, 0, items)

\* an element of a list (k unused) or an entry of a dict
Item(k, v) == [k |-> k, v |-> v]

HasKey(d, k) == d.t = "dict" /\ \E i \in 1..Len(d.items) : d.items[i].k = k

DictGet(d, k) == d.items[CHOOSE i \in 1..Len(d.items) : d.items[i].k = k].v

\* d[k] = v on the entries of a dict: a repeated key keeps its place, the last value wins
DictSet(items, k, v) ==
  IF \E i \in 1..Len(items) : items[i].k = k
  THEN [i \in 1..Len(items) |-> IF items[i].k = k THEN Item(k, v) ELSE items[i]]
  ELSE Append(items, Item(k, v))

RECURSIVE PyRepr(_)
RECURSIVE ReprItems(_, _, _)

\* repr(v)
PyRepr(v) ==
  CASE v.t = "str" ->
         IF Contains(<<"'">>, v.s) THEN <<Quote>> \o v.s \o <<Quote>>
         ELSE <<"'">> \o v.s \o <<"'">>
    [] v.t = "int" -> IntToStr(v.n)
    [] v.t = "True" -> <<"T", "r", "u", "e">>
    [] v.t = "False" -> <<"F", "a", "l", "s", "e">>
    [] v.t = "None" -> <<"N", "o", "n", "e">>
    [] v.t = "list" -> <<"[">> \o ReprItems(v.items, 1, FALSE) \o <<"]">>
    [] v.t = "dict" -> <<"{">> \o ReprItems(v.items, 1, TRUE) \o <<"}">>

ReprItems(items, i, keyed) ==
  IF i > Len(items) THEN <<>>
  ELSE (IF i > 1 THEN <<",", " ">> ELSE <<>>)
       \o (IF keyed THEN PyRepr(PyStrVal(items[i].k)) \o <<":", " ">> ELSE <<>>)
       \o PyRepr(items[i].v)
       \o ReprItems(items, i + 1, keyed)

\* str(v)
PyStr(v) == IF v.t = "str" THEN v.s ELSE PyRepr(v)

(***************************************************************************)
(* json.loads, as Response.json() applies it to the body text.  The        *)
(* modelled alphabet has no backslash, sign, fraction or exponent.         *)
(***************************************************************************)
ParseFail == [ok |-> FALSE, val |-> PyNone, pos |-> 0]

ParseOk(v, pos) == [ok |-> TRUE, val |-> v, pos |-> pos]

RECURSIVE SkipWs(_, _)
SkipWs(s, i) ==
  IF i <= Len(s) /\ s[i] \in Whitespace THEN SkipWs(s, i + 1) ELSE i

\* index of the quote closing the string whose content starts at j, 0 if there is none
RECURSIVE StringEnd(_, _)
StringEnd(s, j) ==
  IF j > Len(s) THEN 0
  ELSE IF s[j] = Quote THEN j
  ELSE IF s[j] \in {"\n", "\t", "\r"} THEN 0
  ELSE StringEnd(s, j + 1)

\* first index after the run of digits starting at j
RECURSIVE DigitsEnd(_, _)
DigitsEnd(s, j) ==
  IF j <= Len(s) /\ s[j] \in DigitSet THEN DigitsEnd(s, j + 1) ELSE j

IsAt(s, i, word) ==
  i + Len(word) - 1 <= Len(s) /\ SubSeq(s, i, i + Len(word) - 1) = word

RECURSIVE ParseValue(_, _)
RECURSIVE ParseElements(_, _, _)
RECURSIVE ParseMembers(_, _, _)

ParseValue(s, i) ==
  IF i > Len(s) THEN ParseFail
  ELSE IF s[i] = Quote THEN
    LET e == StringEnd(s, i + 1)
    IN  IF e = 0 THEN ParseFail ELSE ParseOk(PyStrVal(SubSeq(s, i + 1, e - 1)), e + 1)
  ELSE IF s[i] \in DigitSet THEN
    LET e == IF s[i] = "0" THEN i + 1 ELSE DigitsEnd(s, i)
    IN  ParseOk(PyInt(ToInt(SubSeq(s, i, e - 1))), e)
  ELSE IF s[i] = "[" THEN
    LET j == SkipWs(s, i + 1)
    IN  IF j <= Len(s) /\ s[j] = "]" THEN ParseOk(PyList(<<>>), j + 1)
        ELSE ParseElements(s, j, <<>>)
  ELSE IF s[i] = "{" THEN
    LET j == SkipWs(s, i + 1)
    IN  IF j <= Len(s) /\ s[j] = "}" THEN ParseOk(PyDict(<<>>), j + 1)
        ELSE ParseMembers(s, j, <<>>)
  ELSE IF IsAt(s, i, <<"t", "r", "u", "e">>) THEN ParseOk(PyTrue, i + 4)
  ELSE IF IsAt(s, i, <<"f", "a", "l", "s", "e">>) THEN ParseOk(PyFalse, i + 5)
  ELSE IF IsAt(s, i, <<"n", "u", "l", "l">>) THEN ParseOk(PyNone, i + 4)
  ELSE ParseFail

ParseElements(s, i, acc) ==
  LET r == ParseValue(s, i)
  IN  IF ~r.ok THEN ParseFail
      ELSE LET j == SkipWs(s, r.pos)
               items == Append(acc, Item(<<>>, r.val))
           IN  IF j > Len(s) THEN ParseFail
               ELSE IF s[j] = "," THEN ParseElements(s, SkipWs(s, j + 1), items)
               ELSE IF s[j] = "]" THEN ParseOk(PyList(items), j + 1)
               ELSE ParseFail

ParseMembers(s, i, acc) ==
  IF i > Len(s) \/ s[i] # Quote THEN ParseFail
  ELSE LET e == StringEnd(s, i + 1)
       IN  IF e = 0 THEN ParseFail
           ELSE LET key == SubSeq(s, i + 1, e - 1)
                    c == SkipWs(s, e + 1)
                IN  IF c > Len(s) \/ s[c] # ":" THEN ParseFail
                    ELSE LET r == ParseValue(s, SkipWs(s, c + 1))
                         IN  IF ~r.ok THEN ParseFail
                             ELSE LET j == SkipWs(s, r.pos)
                                      items == DictSet(acc, key, r.val)
                                  IN  IF j > Len(s) THEN ParseFail
                                      ELSE IF s[j] = "," THEN
                                        ParseMembers(s, SkipWs(s, j + 1), items)
                                      ELSE IF s[j] = "}" THEN
                                        ParseOk(PyDict(items), j + 1)
                                      ELSE ParseFail

\* json.loads(text): [ok, val]; ok is FALSE where Python raises JSONDecodeError
JsonLoads(text) ==
  LET r == ParseValue(text, SkipWs(text, 1))
  IN  IF r.ok /\ SkipWs(text, r.pos) = Len(text) + 1 THEN r ELSE ParseFail

(***************************************************************************)
(* Exceptions and outcomes of a call.                                      *)
(***************************************************************************)
\* Optional[int]: None is the empty sequence, n is <<n>>
None == <<>>

Some(n) == <<n>>

NoOutcome ==
  [kind |-> "none", exc |-> "", message |-> <<>>, status_code |-> None, value |-> PyNone]

\* `return v`
Returned(v) ==
  [kind |-> "return", exc |-> "", message |-> <<>>, status_code |-> None, value |-> v]

\* `raise exc(message, status_code=status_code)`
Raised(exc, message, status_code) ==
  [kind |-> "raise", exc |-> exc, message |-> message, status_code |-> status_code,
   value |-> PyNone]

MacroAPIError(message, status_code) == Raised("MacroAPIError", message, status_code)

BadRequest(message, status_code) == Raised("BadRequest", message, status_code)

NotFound(message, status_code) == Raised("NotFound", message, status_code)

\* the exception Response.json() raises on a body that is not JSON; it is not a MacroAPIError
JSONDecodeError == Raised("JSONDecodeError", <<>>, None)

(***************************************************************************)
(* Constants of the client.                                                *)
(***************************************************************************)
_BASE_URL ==
  <<"h", "t", "t", "p", "s", ":", "/", "/", "m", "a", "c", "r", "o", "-", "i", "n", "d",
    "i", "c", "a", "t", "o", "r", "s", ".", "f", "l", "y", ".", "d", "e", "v">>

_TIMEOUT == 30

ApplicationJson ==
  <<"a", "p", "p", "l", "i", "c", "a", "t", "i", "o", "n", "/", "j", "s", "o", "n">>

DetailKey == <<"d", "e", "t", "a", "i", "l">>

RawKey == <<"r", "a", "w">>

(***************************************************************************)
(* Internal helpers.                                                       *)
(***************************************************************************)
\* resp.headers.get("content-type", "")
ContentType(resp) == IF resp.has_ctype THEN resp.ctype ELSE <<>>

\* the test _extract_detail makes of the content type
DetailTreatsAsJson(ctype) == Contains(ApplicationJson, ctype)

\* mutant: the decoding step uses the substring test of _extract_detail
DecodeTreatsAsJsonAnywhere(ctype) == Contains(ApplicationJson, ctype)

\* the test _get makes of the content type before decoding
DecodeTreatsAsJson(ctype) == StartsWith(ctype, ApplicationJson)

\* mutant: the raw body is not trimmed
RawDetailUnstripped(resp) ==
  IF resp.text # <<>> THEN resp.text
  ELSE <<"H", "T", "T", "P", " ">> \o IntToStr(resp.status_code)

\* (resp.text or "").strip() or f"HTTP {resp.status_code}"
RawDetail(resp) ==
  LET text == Strip(resp.text)
  IN  IF text # <<>> THEN text
      ELSE <<"H", "T", "T", "P", " ">> \o IntToStr(resp.status_code)

\* mutant: the detail is trimmed like the raw body
_extract_detail_stripped(resp) ==
  LET js == JsonLoads(resp.text)
  IN  IF Contains(ApplicationJson, ContentType(resp)) /\ js.ok /\ HasKey(js.val, DetailKey)
      THEN Strip(PyStr(DictGet(js.val, DetailKey)))
      ELSE Strip(resp.text) \o (IF Strip(resp.text) = <<>>
                                THEN <<"H", "T", "T", "P", " ">> \o IntToStr(resp.status_code)
                                ELSE <<>>)

_extract_detail(resp) ==
  LET js == JsonLoads(resp.text)
  IN  IF DetailTreatsAsJson(ContentType(resp)) /\ js.ok /\ HasKey(js.val, DetailKey)
      THEN PyStr(DictGet(js.val, DetailKey))
      ELSE RawDetail(resp)

\* mutant: only the 5xx codes raise
RaisesForServerErrorsOnly(status_code) == 500 <= status_code /\ status_code < 600

\* Response.raise_for_status() raises HTTPError for the 4xx and 5xx codes only
RaisesForStatus(status_code) == 400 <= status_code /\ status_code < 600

\* the decoding step of _get
Decode(resp) ==
  IF DecodeTreatsAsJson(ContentType(resp))
  THEN LET js == JsonLoads(resp.text)
       IN  IF js.ok THEN Returned(js.val) ELSE JSONDecodeError
  ELSE Returned(PyDict(<<Item(RawKey, PyStrVal(resp.text))>>))

\* url = f"{_BASE_URL}{path}"
Url(path) == _BASE_URL \o path

\* mutant: the message leaves the url out
GetOnTransportErrorNoUrl(url, e) ==
  [kind |-> "raise", exc |-> "MacroAPIError",
   message |-> <<"N", "e", "t", "w", "o", "r", "k", " ", "e", "r", "r", "o", "r", ":", " ">> \o e,
   status_code |-> <<>>, value |-> PyNone]

\* _get when requests.get raises a RequestException with message e
GetOnTransportError(url, e) ==
  MacroAPIError(<<"N", "e", "t", "w", "o", "r", "k", " ", "e", "r", "r", "o", "r", " ",
                  "c", "a", "l", "l", "i", "n", "g", " ">> \o url \o <<":", " ">> \o e,
                None)

\* mutant: a 404 is not told apart from the other error statuses
GetOnResponseNo404(resp) ==
  IF resp.status_code = 400
  THEN [kind |-> "raise", exc |-> "BadRequest", message |-> RawDetail(resp),
        status_code |-> <<400>>, value |-> PyNone]
  ELSE IF 400 <= resp.status_code /\ resp.status_code < 600
  THEN [kind |-> "raise", exc |-> "MacroAPIError", message |-> RawDetail(resp),
        status_code |-> <<resp.status_code>>, value |-> PyNone]
  ELSE [kind |-> "return", exc |-> "", message |-> <<>>, status_code |-> <<>>,
        value |-> PyStrVal(resp.text)]

\* _get once requests.get has returned resp
GetOnResponse(resp) ==
  IF resp.status_code = 400 THEN BadRequest(_extract_detail(resp), Some(400))
  ELSE IF resp.status_code = 404 THEN NotFound(_extract_detail(resp), Some(404))
  ELSE IF RaisesForStatus(resp.status_code)
       THEN MacroAPIError(_extract_detail(resp), Some(resp.status_code))
  ELSE Decode(resp)

\* mutant: a failed request is sent again
AfterGetRetry(outcome) == IF outcome.kind = "raise" THEN "in_get" ELSE "done"

\* a raise or a return ends _get: there is no loop around requests.get
AfterGet(outcome) == "done"

\* every public function is `return _get(...)`
PublicReturn(outcome) == outcome

(***************************************************************************)
(* Public functions: the path and the params each one hands to _get.       *)
(***************************************************************************)
NoParams == [given |-> FALSE, items |-> <<>>]

Params(items) == [given |-> TRUE, items |-> items]

PathOf(op) ==
  CASE op = "root" -> <<"/">>
    [] op = "get_country_codes" ->
         <<"/", "c", "o", "u", "n", "t", "r", "y", "-", "c", "o", "d", "e", "s">>
    [] op = "get_countries_with_names" ->
         <<"/", "c", "o", "u", "n", "t", "r", "i", "e", "s">>
    [] op = "get_indicators" -> <<"/", "i", "n", "d", "i", "c", "a", "t", "o", "r", "s">>
    [] op = "get_country_data" -> <<"/", "d", "a", "t", "a">>

\* mutant: start_year and end_year change places
ParamsOfSwappedYears(op, args) ==
  IF op = "get_country_data"
  THEN [given |-> TRUE,
        items |-> <<[k |-> <<"c", "o", "u", "n", "t", "r", "y", "_", "c", "o", "d", "e">>,
                     v |-> args[1]],
                    [k |-> <<"i", "n", "d", "i", "c", "a", "t", "o", "r">>, v |-> args[2]],
                    [k |-> <<"s", "t", "a", "r", "t", "_", "y", "e", "a", "r">>,
                     v |-> args[4]],
                    [k |-> <<"e", "n", "d", "_", "y", "e", "a", "r">>, v |-> args[3]]>>]
  ELSE [given |-> FALSE, items |-> <<>>]

ParamsOf(op, args) ==
  IF op = "get_country_data"
  THEN Params(<<Item(<<"c", "o", "u", "n", "t", "r", "y", "_", "c", "o", "d", "e">>, args[1]),
                Item(<<"i", "n", "d", "i", "c", "a", "t", "o", "r">>, args[2]),
                Item(<<"s", "t", "a", "r", "t", "_", "y", "e", "a", "r">>, args[3]),
                Item(<<"e", "n", "d", "_", "y", "e", "a", "r">>, args[4])>>)
  ELSE NoParams

(***************************************************************************)
(* Inputs: the caller's arguments and what the network can answer.         *)
(***************************************************************************)
CountryCodes == {<<"S", "W", "E">>, <<"X", "X", "X">>}

Indicators == {<<"M", "2", "_", "L", "C", "U">>}

StartYears == {2010, 2016}

EndYears == {2015}

TransportMessages == {<<"t", "i", "m", "e", "d", " ", "o", "u", "t">>,
                      <<"r", "e", "f", "u", "s", "e", "d">>}

StatusCodes == {100, 200, 304, 400, 404, 422, 500, 599, 600}

CtypeSegments ==
  {ApplicationJson,
   <<"t", "e", "x", "t", "/", "h", "t", "m", "l">>,
   <<";", " ", "c", "h", "a", "r", "s", "e", "t", "=", "u", "t", "f", "-", "8">>,
   <<"m", "u", "l", "t", "i", "p", "a", "r", "t", "/", "r", "e", "l", "a", "t", "e", "d",
     ";", " ", "t", "y", "p", "e", "=">>}

RECURSIVE Concats(_)
Concats(n) ==
  IF n = 0 THEN {<<>>}
  ELSE Concats(n - 1) \cup {p \o s : p \in Concats(n - 1), s \in CtypeSegments}

CtypeValues == Concats(MaxCtypeSegs)

Q(s) == <<Quote>> \o s \o <<Quote>>

BodyCores ==
  { <<>>,
    <<"{">> \o Q(DetailKey) \o <<":">> \o Q(<<" ", "m", " ">>) \o <<"}">>,
    <<"{">> \o Q(DetailKey) \o <<":">> \o Q(<<"a">>) \o <<",", " ">> \o Q(<<"x">>)
      \o <<":", "1", ",">> \o Q(DetailKey) \o <<":", " ">> \o Q(<<"b">>) \o <<"}">>,
    <<"{">> \o Q(<<"x">>) \o <<":">> \o Q(<<"m">>) \o <<"}">>,
    Q(DetailKey),
    <<"[">> \o Q(DetailKey) \o <<"]">>,
    <<"{">> \o Q(DetailKey) \o <<":">>,
    <<"<", "h", "t", "m", "l", ">">>,
    <<"{">> \o Q(DetailKey) \o <<":", "4", "0", "4", "}">>,
    <<"{">> \o Q(DetailKey) \o <<":", "[", "n", "u", "l", "l", "]", "}">> }

RECURSIVE Pad(_)
Pad(n) == IF n = 0 THEN <<>> ELSE <<" ">> \o Pad(n - 1)

Bodies == {Pad(n) \o core \o tail : n \in 0..MaxPad, core \in BodyCores,
                                    tail \in {<<>>, <<"\n">>}}

Responses ==
  [status_code : StatusCodes, has_ctype : {TRUE}, ctype : CtypeValues, text : Bodies]
    \cup [status_code : StatusCodes, has_ctype : {FALSE}, ctype : {<<>>}, text : Bodies]

NoCall == [op |-> "", args |-> <<>>]

NoRequest == [method |-> "", url |-> <<>>, params |-> NoParams, timeout |-> 0]

NoResponse ==
  [received |-> FALSE, error |-> <<>>,
   resp |-> [status_code |-> 0, has_ctype |-> FALSE, ctype |-> <<>>, text |-> <<>>]]

(***************************************************************************)
(* The state machine: one call of a public function at a time.             *)
(***************************************************************************)
Init ==
  /\ pc = "idle"
  /\ call = NoCall
  /\ request = NoRequest
  /\ nrequests = 0
  /\ response = NoResponse
  /\ getOutcome = NoOutcome
  /\ opOutcome = NoOutcome

\* the caller invokes op(args): the function body starts a _get
Invoke(op, args) ==
  /\ pc' = "in_get"
  /\ call' = [op |-> op, args |-> args]
  /\ nrequests' = 0
  /\ UNCHANGED <<request, response, getOutcome, opOutcome>>

root ==
  /\ pc = "idle"
  /\ Invoke("root", <<>>)

get_country_codes ==
  /\ pc = "idle"
  /\ Invoke("get_country_codes", <<>>)

get_countries_with_names ==
  /\ pc = "idle"
  /\ Invoke("get_countries_with_names", <<>>)

get_indicators ==
  /\ pc = "idle"
  /\ Invoke("get_indicators", <<>>)

get_country_data ==
  /\ pc = "idle"
  /\ \E country_code \in CountryCodes, indicator \in Indicators,
        start_year \in StartYears, end_year \in EndYears :
       Invoke("get_country_data",
              <<PyStrVal(country_code), PyStrVal(indicator), PyInt(start_year),
                PyInt(end_year)>>)

\* _get builds the url and calls requests.get(url, params=params, timeout=_TIMEOUT)
SendRequest ==
  /\ pc = "in_get"
  /\ pc' = "waiting"
  /\ request' = [method |-> "GET", url |-> Url(PathOf(call.op)),
                 params |-> ParamsOf(call.op, call.args), timeout |-> _TIMEOUT]
  /\ nrequests' = nrequests + 1
  /\ UNCHANGED <<call, response, getOutcome, opOutcome>>

Finish(outcome) ==
  /\ getOutcome' = outcome
  /\ opOutcome' = IF AfterGet(outcome) = "done" THEN PublicReturn(outcome) ELSE NoOutcome
  /\ pc' = AfterGet(outcome)
  /\ UNCHANGED <<call, request, nrequests>>

\* requests.get raises a RequestException (DNS, connection refused, timeout)
TransportFails ==
  /\ pc = "waiting"
  /\ \E e \in TransportMessages :
       /\ response' = [NoResponse EXCEPT !.error = e]
       /\ Finish(GetOnTransportError(request.url, e))

\* requests.get returns a response and _get classifies it
ResponseReceived ==
  /\ pc = "waiting"
  /\ \E resp \in Responses :
       /\ response' = [received |-> TRUE, error |-> <<>>, resp |-> resp]
       /\ Finish(GetOnResponse(resp))

\* the caller has its value or its exception and may call again
CallerContinues ==
  /\ pc = "done"
  /\ pc' = "idle"
  /\ call' = NoCall
  /\ request' = NoRequest
  /\ nrequests' = 0
  /\ response' = NoResponse
  /\ getOutcome' = NoOutcome
  /\ opOutcome' = NoOutcome

Next ==
  \/ root
  \/ get_country_codes
  \/ get_countries_with_names
  \/ get_indicators
  \/ get_country_data
  \/ SendRequest
  \/ TransportFails
  \/ ResponseReceived
  \/ CallerContinues

Spec == Init /\ [][Next]_vars

(***************************************************************************)
(* Properties.                                                             *)
(***************************************************************************)
\* the call has ended on a response / on a transport failure
Answered == pc = "done" /\ response.received

Unreachable == pc = "done" /\ ~response.received

\* C1: a 400 response fails the call with BadRequest carrying status_code 400 and a
\* 404 response fails it with NotFound carrying status_code 404; no value is
\* returned, whatever the content type and the body.
C1_Status400And404 ==
  Answered =>
    /\ response.resp.status_code = 400 =>
         /\ getOutcome.kind = "raise" /\ getOutcome.exc = "BadRequest"
         /\ getOutcome.status_code = Some(400)
         /\ opOutcome.kind = "raise"
    /\ response.resp.status_code = 404 =>
         /\ getOutcome.kind = "raise" /\ getOutcome.exc = "NotFound"
         /\ getOutcome.status_code = Some(404)
         /\ opOutcome.kind = "raise"

\* a 404 whose JSON-typed body would decode to a value still raises NotFound
C1_Witness ==
  /\ Answered
  /\ response.resp.status_code = 404
  /\ StartsWith(ContentType(response.resp), ApplicationJson)
  /\ JsonLoads(response.resp.text).ok
  /\ opOutcome.exc = "NotFound"

\* C2 as stated: every status other than 400 and 404 outside [200,399], the 1xx
\* and the codes of 600 or more included, fails with MacroAPIError carrying the
\* status code and the extracted detail.
C2_Original ==
  (/\ Answered
   /\ response.resp.status_code \notin {400, 404}
   /\ response.resp.status_code \notin 200..399) =>
    /\ getOutcome.kind = "raise" /\ getOutcome.exc = "MacroAPIError"
    /\ getOutcome.status_code = Some(response.resp.status_code)
    /\ getOutcome.message = _extract_detail(response.resp)

\* C2 amended: every status in [400,599] other than 400 and 404 fails with
\* MacroAPIError carrying the status code and the extracted detail, and no value
\* is returned for it.
C2_OtherErrorStatus ==
  (/\ Answered
   /\ response.resp.status_code \notin {400, 404}
   /\ response.resp.status_code \in 400..599) =>
    /\ getOutcome.kind = "raise" /\ getOutcome.exc = "MacroAPIError"
    /\ getOutcome.status_code = Some(response.resp.status_code)
    /\ getOutcome.message = _extract_detail(response.resp)
    /\ opOutcome.kind = "raise"

C2_Witness ==
  /\ Answered
  /\ response.resp.status_code = 422
  /\ opOutcome.exc = "MacroAPIError"
  /\ opOutcome.status_code = Some(422)

\* C3: a success response declared as JSON whose body is not JSON fails with
\* MacroAPIError, and no exception outside MacroAPIError, BadRequest and NotFound
\* leaves a call.
C3_DecodeFailureIsMacroAPIError ==
  /\ (/\ Answered
      /\ response.resp.status_code \in 200..299
      /\ StartsWith(ContentType(response.resp), ApplicationJson)
      /\ ~JsonLoads(response.resp.text).ok) =>
       (opOutcome.kind = "raise" /\ opOutcome.exc = "MacroAPIError")
  /\ (pc = "done" /\ opOutcome.kind = "raise") =>
       opOutcome.exc \in {"MacroAPIError", "BadRequest", "NotFound"}

\* C4: a transport failure fails the call with the base MacroAPIError, never
\* BadRequest or NotFound, with no status code, and the message holds the url
\* (base endpoint then path) and the transport's own message.
C4_TransportError ==
  Unreachable =>
    /\ opOutcome.kind = "raise" /\ opOutcome.exc = "MacroAPIError"
    /\ opOutcome.status_code = None
    /\ Contains(_BASE_URL \o PathOf(call.op), opOutcome.message)
    /\ Contains(response.error, opOutcome.message)

C4_Witness ==
  /\ Unreachable
  /\ call.op = "get_country_data"
  /\ opOutcome.exc = "MacroAPIError"
  /\ Len(opOutcome.message) > Len(_BASE_URL) + Len(response.error)

\* the body is a JSON mapping with a detail key
HasDetail(resp) ==
  JsonLoads(resp.text).ok /\ HasKey(JsonLoads(resp.text).val, DetailKey)

DetailOf(resp) == DictGet(JsonLoads(resp.text).val, DetailKey)

\* C5 as stated: a 400 response whose body is a JSON mapping {"detail": msg}
\* fails with message msg, whatever the content-type header.
C5_Original ==
  (/\ Answered
   /\ response.resp.status_code = 400
   /\ HasDetail(response.resp)
   /\ DetailOf(response.resp).t = "str") =>
    getOutcome.message = DetailOf(response.resp).s

\* C5 amended: a 400 response whose content-type header contains application/json
\* and whose body is a JSON mapping {"detail": msg} fails with message msg exactly
\* when msg is a string, and with str(msg) otherwise.
C5_DetailMessage ==
  (/\ Answered
   /\ response.resp.status_code = 400
   /\ Contains(ApplicationJson, ContentType(response.resp))
   /\ HasDetail(response.resp)) =>
    /\ DetailOf(response.resp).t = "str" =>
         getOutcome.message = DetailOf(response.resp).s
    /\ getOutcome.message = PyStr(DetailOf(response.resp))
    /\ opOutcome.message = getOutcome.message

\* the detail has blanks at both ends, and they are kept
C5_Witness ==
  /\ Answered
  /\ response.resp.status_code = 400
  /\ Contains(ApplicationJson, ContentType(response.resp))
  /\ HasDetail(response.resp)
  /\ opOutcome.message = <<" ", "m", " ">>

\* the exception kind the status code decides
KindOf(status_code) ==
  IF status_code = 400 THEN "BadRequest"
  ELSE IF status_code = 404 THEN "NotFound"
  ELSE "MacroAPIError"

\* C6: on an error response (400, 404, or another 4xx/5xx) whose body is not JSON,
\* also when the content type says JSON, or is JSON but no mapping with a detail
\* key, the failure keeps the kind its status decides and its message is the
\* trimmed body, or "HTTP <status_code>" when the trimmed body is empty.
C6_DetailFallback ==
  (/\ Answered
   /\ response.resp.status_code \in 400..599
   /\ ~HasDetail(response.resp)) =>
    /\ opOutcome.kind = "raise"
    /\ opOutcome.exc = KindOf(response.resp.status_code)
    /\ opOutcome.status_code = Some(response.resp.status_code)
    /\ opOutcome.message =
         IF Strip(response.resp.text) = <<>>
         THEN <<"H", "T", "T", "P", " ">> \o IntToStr(response.resp.status_code)
         ELSE Strip(response.resp.text)

\* a 404 declared as JSON whose body is blank: the message is "HTTP 404"
C6_Witness ==
  /\ Answered
  /\ response.resp.status_code = 404
  /\ Contains(ApplicationJson, ContentType(response.resp))
  /\ response.resp.text = <<" ", "\n">>
  /\ opOutcome.exc = "NotFound"
  /\ opOutcome.message = <<"H", "T", "T", "P", " ", "4", "0", "4">>

\* C7: the value a 2xx response returns is the parsed JSON, unchanged, when the
\* content type begins with application/json, and otherwise exactly the dict
\* {"raw": <body text>}; a non-JSON content type always returns that dict.
C7_DecodingPolicy ==
  (Answered /\ response.resp.status_code \in 200..299) =>
    /\ opOutcome.kind = "return" =>
         IF StartsWith(ContentType(response.resp), ApplicationJson)
         THEN /\ JsonLoads(response.resp.text).ok
              /\ opOutcome.value = JsonLoads(response.resp.text).val
         ELSE opOutcome.value = PyDict(<<Item(RawKey, PyStrVal(response.resp.text))>>)
    /\ ~StartsWith(ContentType(response.resp), ApplicationJson) =>
         opOutcome.kind = "return"
    /\ (/\ StartsWith(ContentType(response.resp), ApplicationJson)
        /\ JsonLoads(response.resp.text).ok) => opOutcome.kind = "return"

\* a JSON string with blanks around it comes back as the string alone
C7_Witness ==
  /\ Answered
  /\ response.resp.status_code = 200
  /\ StartsWith(ContentType(response.resp), ApplicationJson)
  /\ Len(response.resp.text) > Len(DetailKey) + 2
  /\ opOutcome.kind = "return"
  /\ opOutcome.value = PyStrVal(DetailKey)

C9_ThinCallers ==
  /\ pc = "in_get" => ENABLED SendRequest
  /\ pc \in {"waiting", "done"} =>
       /\ request.method = "GET"
       /\ call.op = "root" => request.url = _BASE_URL \o <<"/">>
       /\ call.op = "get_country_codes" =>
            request.url = _BASE_URL
              \o <<"/", "c", "o", "u", "n", "t", "r", "y", "-", "c", "o", "d", "e", "s">>
       /\ call.op = "get_countries_with_names" =>
            request.url = _BASE_URL \o <<"/", "c", "o", "u", "n", "t", "r", "i", "e", "s">>
       /\ call.op = "get_indicators" =>
            request.url = _BASE_URL
              \o <<"/", "i", "n", "d", "i", "c", "a", "t", "o", "r", "s">>
       /\ call.op = "get_country_data" =>
            /\ request.url = _BASE_URL \o <<"/", "d", "a", "t", "a">>
            /\ request.params.given
            /\ Len(request.params.items) = 4
            /\ \A i \in 1..4 : request.params.items[i].v = call.args[i]
            /\ [i \in 1..4 |-> request.params.items[i].k] =
                 << <<"c", "o", "u", "n", "t", "r", "y", "_", "c", "o", "d", "e">>,
                    <<"i", "n", "d", "i", "c", "a", "t", "o", "r">>,
                    <<"s", "t", "a", "r", "t", "_", "y", "e", "a", "r">>,
                    <<"e", "n", "d", "_", "y", "e", "a", "r">> >>
       /\ call.op # "get_country_data" => ~request.params.given
  /\ pc = "done" => opOutcome = getOutcome

\* start_year after end_year and an unknown country code: the request was sent
\* and the answer came from the service
C9_Witness ==
  /\ Answered
  /\ call.op = "get_country_data"
  /\ call.args[1].s = <<"X", "X", "X">>
  /\ call.args[3].n > call.args[4].n
  /\ nrequests = 1
  /\ opOutcome.kind = "return"

\* C10: _extract_detail takes a content type for JSON exactly when the decoding
\* step of _get does.
C10_SameJsonTest ==
  response.received =>
    (DetailTreatsAsJson(ContentType(response.resp))
       <=> DecodeTreatsAsJson(ContentType(response.resp)))

====
